---- MODULE Spec2Model ----
(***************************************************************************)
(* A model of pygdrive's FilesAPIWrapper (src/pygdrive/files.py): the path *)
(* normalisation and splitting, the single-segment lookup _stat, the path  *)
(* walk stat, get_or_create_folder, the mutations create / rename / move / *)
(* copy / delete and the paged listing iter, run against a model of the    *)
(* remote store (a list of object records with parent references).         *)
(*                                                                         *)
(* A path is a sequence of one-character strings; an object name is such a *)
(* sequence too.  Object ids are naturals, 0 being the root folder (the    *)
(* alias 'root' and the root's own id are one id here).                    *)
(***************************************************************************)
EXTENDS Integers, Sequences, FiniteSets, TLC

VARIABLES store, nextId, pre, last, it, req

vars == <<store, nextId, pre, last, it, req>>

----------------------------------------------------------------------------
(* Bounds of the model *)

\* longest path string the path-level specification enumerates
MaxStrLen == 3
\* longest path string given to the operations of the store machine
MaxPathLen == 4
\* longest destination-folder path given to move and copy
MaxDstLen == 2
\* most objects in an initial store of the store machine
MaxInit == 1
\* most object ids ever issued (initial objects and created ones)
MaxObjs == 3
\* most objects another actor puts into the store of the path-level specification
MaxShared == 2
\* most objects in a store that is listed
MaxListed == 3
\* most items the remote store puts on one page of a listing
MaxPage == 2
\* longest path handed to rsplit_path alone
MaxSplitLen == 7
\* longest path handed to stat in the walks
MaxWalkLen == 5

----------------------------------------------------------------------------
(* Program constants *)

Sep == "/"
Letters == {"a", "b"}
Chars == {Sep} \cup Letters

RootId == 0
NoParent == -1
NoId == -2

FOLDER_MIME_TYPE == "folder"
PlainMime == "file"
RootName == <<"My Drive">>

ENOENT == 2
EEXIST == 17
EPERM == 1

\* the HTTP status of the remote store's refusal
Forbidden == 403
\* the HTTP status "File not found" that _stat maps
NotFoundCode == 404
\* an HTTP status that no operation maps
ServerError == 500

----------------------------------------------------------------------------
(* Sequences *)

InSeq(x, s) == \E k \in 1..Len(s) : s[k] = x

AllSep(p) == \A k \in 1..Len(p) : p[k] = Sep

RECURSIVE Strings(_)
Strings(n) ==
    IF n = 0 THEN {<<>>}
    ELSE LET shorter == Strings(n - 1)
         IN  shorter \cup {Append(s, c) : s \in {t \in shorter : Len(t) = n - 1}, c \in Chars}

----------------------------------------------------------------------------
(* RE_PATH_DUP_SLASH.sub('\\1\\2', path): scanning from the left, a        *)
(* non-separator followed by separators up to the end keeps the            *)
(* non-separator; a run of two or more separators keeps one.               *)

RunEnd(p, i) ==
    CHOOSE j \in i..Len(p) :
        /\ \A k \in i..j : p[k] = Sep
        /\ (j = Len(p) \/ p[j + 1] # Sep)

RECURSIVE DupSlashSub(_, _)
DupSlashSub(p, i) ==
    IF i > Len(p) THEN <<>>
    ELSE IF p[i] # Sep /\ i < Len(p) /\ \A k \in (i + 1)..Len(p) : p[k] = Sep
         THEN <<p[i]>>
    ELSE IF p[i] = Sep /\ i < Len(p) /\ p[i + 1] = Sep
         THEN <<Sep>> \o DupSlashSub(p, RunEnd(p, i) + 1)
    ELSE <<p[i]>> \o DupSlashSub(p, i + 1)

\* a variant that leaves the path as it is
KeepDupSlash(path) == path

RE_PATH_DUP_SLASH_sub(path) == DupSlashSub(path, 1)

(* os.path.split *)

LastSepIndex(p) ==
    IF \E k \in 1..Len(p) : p[k] = Sep
    THEN CHOOSE k \in 1..Len(p) : p[k] = Sep /\ \A m \in (k + 1)..Len(p) : p[m] # Sep
    ELSE 0

RECURSIVE RStripSep(_)
RStripSep(h) ==
    IF h # <<>> /\ h[Len(h)] = Sep THEN RStripSep(SubSeq(h, 1, Len(h) - 1)) ELSE h

HeadTail(head, tail) ==
    [head |-> IF head # <<>> /\ ~AllSep(head) THEN RStripSep(head) ELSE head,
     tail |-> tail]

SplitAt(p, i) == HeadTail(SubSeq(p, 1, i), SubSeq(p, i + 1, Len(p)))

os_path_split(p) == SplitAt(p, LastSepIndex(p))

(* os.path.join of two components *)

os_path_join(a, b) ==
    IF b # <<>> /\ b[1] = Sep THEN b
    ELSE IF a = <<>> \/ a[Len(a)] = Sep THEN a \o b
    ELSE a \o <<Sep>> \o b

(* rsplit_path: the anchor {name, parent_id} and the list of the segments  *)
(* below it, leaf first (stat pops them from the end).                     *)

RECURSIVE RsplitLoop(_, _)
\* one turn of the loop, ht being os.path.split(path)
RsplitStep(ht, paths) ==
    IF ht.tail = <<>>
    THEN [name |-> ht.head, parent_id |-> NoParent, rest |-> paths]
    ELSE IF ht.head = <<Sep>>
    THEN [name |-> ht.tail, parent_id |-> RootId, rest |-> paths]
    ELSE IF ht.head = <<>>
    THEN [name |-> ht.tail, parent_id |-> NoParent, rest |-> paths]
    ELSE RsplitLoop(ht.head, Append(paths, ht.tail))

RsplitLoop(path, paths) == RsplitStep(os_path_split(path), paths)

rsplit_path(path) == RsplitLoop(RE_PATH_DUP_SLASH_sub(path), <<>>)

----------------------------------------------------------------------------
(* The remote store: the list of the object records other than the root,   *)
(* in the order a query returns them, and the next id it issues.           *)
(* parents = <<>> is a record without a 'parents' field.                   *)

Obj(id, name, mime, parents) ==
    [id |-> id, name |-> name, mime |-> mime, parents |-> parents]

RootRec == Obj(RootId, RootName, FOLDER_MIME_TYPE, <<>>)
NoRec == Obj(NoId, <<>>, "", <<>>)

(* fault: the remote calls of one kind (api) fail with an HttpError of the  *)
(* given status; NoFault when every call goes through                      *)
NoFault == [api |-> "none", code |-> 0]

Remote(files, next) == [files |-> files, next |-> next, fault |-> NoFault]

\* the store s with other records
Stored(s, files, next) == [s EXCEPT !.files = files, !.next = next]

\* the store s when the calls of one kind fail
Failing(s, fault) == [s EXCEPT !.fault = fault]

Fails(s, api) == s.fault.api = api

(* One remote call, as the store sees it *)
Call(api, id, name, parent, q) ==
    [api |-> api, id |-> id, name |-> name, parent |-> parent, q |-> q]

(* files().list(q=...): the records that match every clause of the query *)
FilesList(files, name, parent_id, q) ==
    SelectSeq(files, LAMBDA o :
        /\ o.name = name
        /\ (parent_id # NoParent => InSeq(parent_id, o.parents))
        /\ (q => o.mime = FOLDER_MIME_TYPE))

(* Errors: GoogleDriveFile*Error(errno, strerror, filename); an errno of   *)
(* None becomes the class's DEFAULT_ERRNO.                                 *)

\* strerror: the class's DEFAULT_STRERROR, or the message of the remote error
DefaultStrerror == "default"
RemoteMessage == "remote"

NoErr == [kind |-> "none", errno |-> 0, strerror |-> "", filename |-> <<>>]
GoogleDriveFileNotFoundError(filename) ==
    [kind |-> "NotFound", errno |-> ENOENT, strerror |-> DefaultStrerror, filename |-> filename]
\* GoogleDriveFileNotFoundError(code, None, name), as _stat raises it on an HttpError
NotFoundWithErrno(errno, filename) ==
    [kind |-> "NotFound", errno |-> errno, strerror |-> DefaultStrerror, filename |-> filename]
GoogleDriveFileExistsError(filename) ==
    [kind |-> "Exists", errno |-> EEXIST, strerror |-> DefaultStrerror, filename |-> filename]
GoogleDrivePermissionError(errno, filename) ==
    [kind |-> "Permission", errno |-> errno, strerror |-> RemoteMessage, filename |-> filename]
KeyError == [kind |-> "KeyError", errno |-> 0, strerror |-> "", filename |-> <<>>]
HttpError(code) ==
    [kind |-> "HttpError", errno |-> code, strerror |-> RemoteMessage, filename |-> <<>>]

(* What an operation returns: the record or the error, the remote calls it *)
(* issued in order, and the remote store it leaves.                        *)
Ret(rec, calls, s) == [ok |-> TRUE, rec |-> rec, err |-> NoErr, calls |-> calls, s |-> s]
Raise(err, calls, s) == [ok |-> FALSE, rec |-> NoRec, err |-> err, calls |-> calls, s |-> s]
After(calls, r) == [r EXCEPT !.calls = calls \o @]

\* drive._execute_request raises the HttpError of the failing call
Transport(s, call) == Raise(HttpError(s.fault.code), <<call>>, s)

NotFoundRaised(r) == ~r.ok /\ r.err.kind = "NotFound"

----------------------------------------------------------------------------
(* _stat: the lookup of one segment *)

\* a variant that keeps the results that carry parent references too
KeepEveryItem(items) == items

KeepUnparented(items) == SelectSeq(items, LAMBDA el : el.parents = <<>>)

\* the end of _stat: no item is NotFound, otherwise the first item
FirstItem(s, name, calls, items) ==
    IF items = <<>>
    THEN Raise(GoogleDriveFileNotFoundError(name), calls, s)
    ELSE Ret(items[1], calls, s)

\* parent_id None: only the items that carry no parent references count
Unparented(parent_id, found) ==
    IF parent_id = NoParent THEN KeepUnparented(found) ELSE found

\* the except HttpError clause of _stat: 404 becomes NotFound, the rest is raised again
ListFailed(s, name, call) ==
    IF s.fault.code = NotFoundCode
    THEN Raise(NotFoundWithErrno(s.fault.code, name), <<call>>, s)
    ELSE Transport(s, call)

_stat(s, name, parent_id, q) ==
    IF name = <<Sep>>
    THEN IF Fails(s, "get")
         THEN Transport(s, Call("get", RootId, <<>>, NoParent, FALSE))
         ELSE Ret(RootRec, <<Call("get", RootId, <<>>, NoParent, FALSE)>>, s)
    ELSE IF name = <<>>
    THEN Raise(GoogleDriveFileNotFoundError(name), <<>>, s)
    ELSE IF Fails(s, "list")
    THEN ListFailed(s, name, Call("list", NoId, name, parent_id, q))
    ELSE FirstItem(s, name, <<Call("list", NoId, name, parent_id, q)>>,
                   Unparented(parent_id, FilesList(s.files, name, parent_id, q)))

(* stat: every segment but the last is looked up as a folder *)

RECURSIVE StatWalk(_, _, _, _)
\* one turn of the loop, r being the folder lookup of the segment before
StatStep(s, rest, r) ==
    IF ~r.ok THEN r
    ELSE After(r.calls,
               StatWalk(s, rest[Len(rest)], r.rec.id, SubSeq(rest, 1, Len(rest) - 1)))

\* a variant that looks every segment up without the folder filter
StatWalkAnyType(s, name, parent_id, rest) ==
    IF Len(rest) >= 1
    THEN StatStep(s, rest, _stat(s, name, parent_id, FALSE))
    ELSE _stat(s, name, parent_id, FALSE)

StatWalk(s, name, parent_id, rest) ==
    IF Len(rest) >= 1
    THEN StatStep(s, rest, _stat(s, name, parent_id, TRUE))
    ELSE _stat(s, name, parent_id, FALSE)

StatFrom(s, sp) == StatWalk(s, sp.name, sp.parent_id, sp.rest)

\* a variant that lets the error through as _stat raised it
NotFoundAsRaised(path, r) == r

\* the except clause of stat: NotFound is raised again with the whole path
NotFoundAt(path, r) ==
    IF ~r.ok /\ r.err.kind = "NotFound"
    THEN [r EXCEPT !.err.filename = path]
    ELSE r

stat(s, path) == NotFoundAt(path, StatFrom(s, rsplit_path(path)))

----------------------------------------------------------------------------
(* The remote store's mutations *)

SetOf(seq) == {seq[k] : k \in 1..Len(seq)}

WithId(files, id) == CHOOSE o \in SetOf(files) \cup {RootRec} : o.id = id

(* files().create(body={name, mimeType, parents: [parent_id]}) *)
Created(s, rec, parent_id) ==
    Ret(rec, <<Call("create", rec.id, rec.name, parent_id, rec.mime = FOLDER_MIME_TYPE)>>,
        Stored(s, Append(s.files, rec), s.next + 1))

FilesCreate(s, name, mime, parent_id) ==
    IF Fails(s, "create")
    THEN Transport(s, Call("create", s.next, name, parent_id, mime = FOLDER_MIME_TYPE))
    ELSE Created(s, Obj(s.next, name, mime, <<parent_id>>), parent_id)

(* files().update(fileId, ...): the record with the id replaced *)
Updated(s, id, call, files) ==
    IF Fails(s, "update")
    THEN Transport(s, call)
    ELSE Ret(WithId(files, id), <<call>>, Stored(s, files, s.next))

(* files().update(fileId, body={name}) *)
FilesUpdateName(s, id, name) ==
    Updated(s, id, Call("update", id, name, NoParent, FALSE),
            [k \in 1..Len(s.files) |->
                IF s.files[k].id = id THEN [s.files[k] EXCEPT !.name = name]
                ELSE s.files[k]])

\* a variant that adds the parent and removes none
AddParentOnly(parents, addParents, removeParents) == Append(parents, addParents)

(* files().update(fileId, addParents, removeParents) *)
NewParents(parents, addParents, removeParents) ==
    Append(SelectSeq(parents, LAMBDA x : ~InSeq(x, removeParents) /\ x # addParents),
           addParents)

FilesUpdateParents(s, id, addParents, removeParents) ==
    Updated(s, id, Call("update", id, <<>>, addParents, FALSE),
            [k \in 1..Len(s.files) |->
                IF s.files[k].id = id
                THEN [s.files[k] EXCEPT !.parents = NewParents(@, addParents, removeParents)]
                ELSE s.files[k]])

(* files().copy(fileId, body={parents: [parent_id]}): a new object with the *)
(* source's name and type; the store copies no folder                       *)
Copied(s, src, parent_id) ==
    IF Fails(s, "copy")
    THEN Transport(s, Call("copy", src.id, src.name, parent_id, FALSE))
    ELSE IF src.mime = FOLDER_MIME_TYPE
    THEN Raise(HttpError(Forbidden), <<Call("copy", src.id, src.name, parent_id, FALSE)>>, s)
    ELSE Ret(Obj(s.next, src.name, src.mime, <<parent_id>>),
             <<Call("copy", src.id, src.name, parent_id, FALSE)>>,
             Stored(s, Append(s.files, Obj(s.next, src.name, src.mime, <<parent_id>>)),
                    s.next + 1))

FilesCopy(s, id, parent_id) == Copied(s, WithId(s.files, id), parent_id)

(* files().delete(fileId): the object goes, and with it every object left  *)
(* with none of its parents; the store does not delete the root            *)
RECURSIVE Doomed(_, _)
Orphans(files, gone) ==
    {o.id : o \in {x \in SetOf(files) : x.parents # <<>> /\ SetOf(x.parents) \subseteq gone}}

DoomedStep(files, gone, more) == IF more = gone THEN gone ELSE Doomed(files, more)

Doomed(files, gone) == DoomedStep(files, gone, gone \cup Orphans(files, gone))

Without(files, gone) ==
    [k \in 1..Len(files) |->
        [files[k] EXCEPT !.parents = SelectSeq(@, LAMBDA x : x \notin gone)]]

Deleted(s, id, gone) ==
    Ret(NoRec, <<Call("delete", id, <<>>, NoParent, FALSE)>>,
        Stored(s, Without(SelectSeq(s.files, LAMBDA o : o.id \notin gone), gone), s.next))

FilesDelete(s, id) ==
    IF Fails(s, "delete")
    THEN Transport(s, Call("delete", id, <<>>, NoParent, FALSE))
    ELSE IF id = RootId
    THEN Raise(HttpError(Forbidden), <<Call("delete", id, <<>>, NoParent, FALSE)>>, s)
    ELSE Deleted(s, id, Doomed(s.files, {id}))

----------------------------------------------------------------------------
(* _mkdir and get_or_create_folder *)

\* a variant that creates every folder under the root
MkdirUnderRoot(s, name, parent_id) == FilesCreate(s, name, FOLDER_MIME_TYPE, RootId)

\* a variant that creates the folder without a parent id too
MkdirUnparented(s, name, parent_id) == FilesCreate(s, name, FOLDER_MIME_TYPE, parent_id)

_mkdir(s, name, parent_id) ==
    IF parent_id = NoParent
    THEN Raise(GoogleDriveFileNotFoundError(name), <<>>, s)
    ELSE FilesCreate(s, name, FOLDER_MIME_TYPE, parent_id)

\* a variant that creates the folder whatever the lookup gave
MkdirAnyway(s, name, parent_id, r) == After(r.calls, _mkdir(s, name, parent_id))

(* the try / except of get_or_create_folder: r is the lookup, and when it  *)
(* raised NotFound the folder is created                                    *)
OrMkdir(s, name, parent_id, r) ==
    IF r.ok THEN r
    ELSE IF ~NotFoundRaised(r) THEN r
    ELSE After(r.calls, _mkdir(s, name, parent_id))

StatOrMkdir(s, name, parent_id, q) == OrMkdir(s, name, parent_id, _stat(s, name, parent_id, q))

RECURSIVE GetOrCreateWalk(_, _, _, _)
GetOrCreateStep(rest, r) ==
    IF ~r.ok THEN r
    ELSE After(r.calls,
               GetOrCreateWalk(r.s, rest[Len(rest)], r.rec.id, SubSeq(rest, 1, Len(rest) - 1)))

GetOrCreateWalk(s, name, parent_id, rest) ==
    IF Len(rest) >= 1
    THEN GetOrCreateStep(rest, StatOrMkdir(s, name, parent_id, TRUE))
    ELSE StatOrMkdir(s, name, parent_id, FALSE)

GetOrCreateFrom(s, sp) == GetOrCreateWalk(s, sp.name, sp.parent_id, sp.rest)

get_or_create_folder(s, path) == GetOrCreateFrom(s, rsplit_path(path))

----------------------------------------------------------------------------
(* The mutations.  Each is written as the chain of its steps, a step       *)
(* taking what the steps before it returned.                               *)

\* create, from the folder lookup on: dst is get_or_create_folder(dirname)
CreateUnder(name, mime, dst) ==
    IF ~dst.ok THEN dst
    ELSE After(dst.calls, FilesCreate(dst.s, name, mime, dst.rec.id))

CreateIn(s, sp, mime) == CreateUnder(sp.tail, mime, get_or_create_folder(s, sp.head))

\* a variant that raises Exists only after the object is created
CreateTestedLate(s, path, mime, test) ==
    IF test.ok
    THEN [After(test.calls, CreateIn(s, os_path_split(path), mime))
             EXCEPT !.ok = FALSE, !.rec = NoRec, !.err = GoogleDriveFileExistsError(path)]
    ELSE After(test.calls, CreateIn(s, os_path_split(path), mime))

\* create, from the existence test on: test is stat(path)
CreateTested(s, path, mime, test) ==
    IF test.ok THEN Raise(GoogleDriveFileExistsError(path), test.calls, s)
    ELSE IF ~NotFoundRaised(test) THEN test
    ELSE After(test.calls, CreateIn(s, os_path_split(path), mime))

create(s, path, mime) == CreateTested(s, path, mime, stat(s, path))

\* rename, from the name test on: dst is the lookup of dst_name
RenameTested(s, path, dst_name, src, dst) ==
    IF dst.ok
    THEN Raise(GoogleDriveFileExistsError(os_path_join(os_path_split(path).head, dst_name)),
               dst.calls, s)
    ELSE IF ~NotFoundRaised(dst) THEN dst
    ELSE After(dst.calls, FilesUpdateName(s, src.id, dst_name))

\* rename, from the source lookup on: src is stat(path)
RenameFrom(s, path, dst_name, src) ==
    IF ~src.ok THEN src
    ELSE IF src.rec.parents = <<>> THEN Raise(KeyError, src.calls, s)
    ELSE After(src.calls,
               RenameTested(s, path, dst_name, src.rec,
                            _stat(s, dst_name, src.rec.parents[1], FALSE)))

rename(s, path, dst_name) == RenameFrom(s, path, dst_name, stat(s, path))

\* a variant that moves without the name test
MoveUntested(s, path, dst_path, src, dst, test) ==
    After(test.calls, FilesUpdateParents(s, src.id, dst.id, src.parents))

\* move, from the name test on: test is the lookup of the source's name
\* under the destination
MoveTested(s, path, dst_path, src, dst, test) ==
    IF test.ok
    THEN Raise(GoogleDriveFileExistsError(os_path_join(dst_path, os_path_split(path).tail)),
               test.calls, s)
    ELSE IF ~NotFoundRaised(test) THEN test
    ELSE IF src.parents = <<>> THEN Raise(KeyError, test.calls, s)
    ELSE After(test.calls, FilesUpdateParents(s, src.id, dst.id, src.parents))

\* move, from the two lookups on: src is stat(path), dst is stat(dst_path)
MoveFrom(s, path, dst_path, src, dst) ==
    IF ~src.ok THEN src
    ELSE IF ~dst.ok THEN After(src.calls, dst)
    ELSE After(src.calls \o dst.calls,
               MoveTested(s, path, dst_path, src.rec, dst.rec,
                          _stat(s, src.rec.name, dst.rec.id, FALSE)))

move(s, path, dst_path) == MoveFrom(s, path, dst_path, stat(s, path), stat(s, dst_path))

\* delete, from the remote call on: r is files().delete
DeleteCalled(s, path, r) ==
    IF ~r.ok /\ r.err.kind = "HttpError" /\ r.err.errno = Forbidden
    THEN Raise(GoogleDrivePermissionError(r.err.errno, path), r.calls, s)
    ELSE r

DeleteUnresolved(s, path, src) ==
    After(src.calls, DeleteCalled(s, path, FilesDelete(s, src.rec.id)))

DeleteFrom(s, path, src) ==
    IF ~src.ok THEN src
    ELSE After(src.calls, DeleteCalled(s, path, FilesDelete(s, src.rec.id)))

delete(s, path) == DeleteFrom(s, path, stat(s, path))

\* copy, from the name test on
CopyTested(s, path, dst_path, src, dst, test) ==
    IF test.ok
    THEN Raise(GoogleDriveFileExistsError(os_path_join(dst_path, os_path_split(path).tail)),
               test.calls, s)
    ELSE IF ~NotFoundRaised(test) THEN test
    ELSE After(test.calls, FilesCopy(s, src.id, dst.id))

CopyFrom(s, path, dst_path, src, dst) ==
    IF ~src.ok THEN src
    ELSE IF ~dst.ok THEN After(src.calls, dst)
    ELSE After(src.calls \o dst.calls,
               CopyTested(s, path, dst_path, src.rec, dst.rec,
                          _stat(s, src.rec.name, dst.rec.id, FALSE)))

copy(s, path, dst_path) == CopyFrom(s, path, dst_path, stat(s, path), stat(s, dst_path))

----------------------------------------------------------------------------
(* What the last operation was and what it gave *)

NoPath == <<"-">>

(* after: what the operation before this one gave, NoAfter when there was *)
(* none                                                                     *)
NoAfter == [op |-> "none"]

Outcome(op, path, arg, r, after) ==
    [op |-> op, path |-> path, arg |-> arg, ok |-> r.ok, rec |-> r.rec,
     err |-> r.err, calls |-> r.calls, after |-> after]

NoOutcome == Outcome("none", NoPath, NoPath, Raise(NoErr, <<>>, Remote(<<>>, 1)), NoAfter)

\* no 'nextPageToken' in the response, no 'pageToken' in the parameters
NoToken == -1

NoIter == [pc |-> "idle"]

----------------------------------------------------------------------------
(* The path-level specification.  stat reads the store and writes nothing, *)
(* so it is checked as a function of its inputs: the store is any list of  *)
(* up to MaxShared objects (the remote store enforces neither unique names *)
(* nor folder parents), the path any string up to MaxStrLen, and the one   *)
(* action is the call.                                                      *)

ParentLists(ids) ==
    {<<>>} \cup {<<i>> : i \in ids}
           \cup {pr \in {<<i, j>> : i \in ids, j \in ids} : pr[1] # pr[2]}

LetterNames == {<<c>> : c \in Letters}

Extensions(files) ==
    {Append(files, Obj(Len(files) + 1, name, mime, parents)) :
        name \in LetterNames, mime \in {FOLDER_MIME_TYPE, PlainMime},
        parents \in ParentLists({RootId} \cup (1..Len(files)))}

RECURSIVE AnyStores(_)
AnyStores(n) ==
    IF n = 0 THEN {<<>>}
    ELSE LET smaller == AnyStores(n - 1)
         IN  smaller \cup UNION {Extensions(f) : f \in {g \in smaller : Len(g) = n - 1}}

NoReq == [op |-> "none", path |-> NoPath]

InitPath ==
    /\ store \in AnyStores(MaxShared)
    /\ nextId = Len(store) + 1
    /\ pre = Remote(store, nextId)
    /\ last = NoOutcome
    /\ it = NoIter
    /\ req \in [op : {"stat"}, path : Strings(MaxStrLen)]

StatCall ==
    /\ req.op = "stat"
    /\ last' = Outcome("stat", req.path, NoPath, stat(Remote(store, nextId), req.path), last)
    /\ req' = NoReq
    /\ UNCHANGED <<store, nextId, pre, it>>

NextPath == StatCall

SpecPath == InitPath /\ [][NextPath]_vars

----------------------------------------------------------------------------
(* The splitting specification: rsplit_path alone, on every path of up to  *)
(* MaxSplitLen characters.                                                 *)

InitSplit ==
    /\ store = <<>>
    /\ nextId = 1
    /\ pre = Remote(store, nextId)
    /\ last = NoOutcome
    /\ it = NoIter
    /\ req \in [op : {"rsplit_path"}, path : Strings(MaxSplitLen)]

\* what rsplit_path returned for the path: the anchor and the list
Split(path, r) ==
    [op |-> "rsplit_path", path |-> path,
     name |-> r.name, parent_id |-> r.parent_id, rest |-> r.rest]

RsplitCall ==
    /\ req.op = "rsplit_path"
    /\ last' = Split(req.path, rsplit_path(req.path))
    /\ req' = NoReq
    /\ UNCHANGED <<store, nextId, pre, it>>

NextSplit == RsplitCall

SpecSplit == InitSplit /\ [][NextSplit]_vars

----------------------------------------------------------------------------
(* The store machine: the operations of FilesAPIWrapper called one after   *)
(* the other, in any order, on paths whose segment names are one character *)
(* long.  The initial store holds up to MaxInit objects, every parent a    *)
(* folder, no two children of one parent with the same name.               *)

SegPaths(n) ==
    {p \in Strings(n) : \A k \in 1..(Len(p) - 1) : p[k] = Sep \/ p[k + 1] = Sep}

NormalPaths(n) == {p \in SegPaths(n) : RE_PATH_DUP_SLASH_sub(p) = p}

Paths == NormalPaths(MaxPathLen)
DstPaths == NormalPaths(MaxDstLen)
Mimes == {FOLDER_MIME_TYPE, PlainMime}

SharesParent(a, b) == SetOf(a.parents) \cap SetOf(b.parents) # {}

UniqueNames(files) ==
    \A i, j \in 1..Len(files) :
        (i < j /\ files[i].name = files[j].name) => ~SharesParent(files[i], files[j])

IsFolderId(files, id) ==
    id = RootId \/ \E k \in 1..Len(files) : files[k].id = id /\ files[k].mime = FOLDER_MIME_TYPE

FolderParents(files) ==
    \A k \in 1..Len(files) : \A x \in SetOf(files[k].parents) : IsFolderId(files, x)

InitStores ==
    {f \in AnyStores(MaxInit) : UniqueNames(f) /\ FolderParents(f)}

Init ==
    /\ store \in InitStores
    /\ nextId = Len(store) + 1
    /\ pre = Remote(store, nextId)
    /\ last = NoOutcome
    /\ it = NoIter
    /\ req = NoReq

(* One operation: r is what it returned; it issues ids up to MaxObjs only. *)
(* The store machine keeps the store; what each call returned is checked   *)
(* under SpecCalls.                                                         *)
Do(op, path, arg, r) ==
    /\ r.s.next <= MaxObjs + 1
    /\ store' = r.s.files
    /\ nextId' = r.s.next
    /\ UNCHANGED <<pre, last, it, req>>

Now == Remote(store, nextId)

\* the caller is between two calls
Idle == req = NoReq

GetOrCreateFolder(path) ==
    /\ Idle
    /\ Do("get_or_create_folder", path, NoPath, get_or_create_folder(Now, path))

Create(path, mime) ==
    /\ Idle
    /\ Do("create", path, <<mime>>, create(Now, path, mime))

Rename(path, dst_name) ==
    /\ Idle
    /\ Do("rename", path, dst_name, rename(Now, path, dst_name))

Move(path, dst_path) ==
    /\ Idle
    /\ Do("move", path, dst_path, move(Now, path, dst_path))

Copy(path, dst_path) ==
    /\ Idle
    /\ Do("copy", path, dst_path, copy(Now, path, dst_path))

Delete(path) ==
    /\ Idle
    /\ Do("delete", path, NoPath, delete(Now, path))

Next ==
    \/ \E path \in Paths : GetOrCreateFolder(path)
    \/ \E path \in Paths, mime \in Mimes : Create(path, mime)
    \/ \E path \in Paths, dst_name \in LetterNames : Rename(path, dst_name)
    \/ \E path \in Paths, dst_path \in DstPaths : Move(path, dst_path)
    \/ \E path \in Paths, dst_path \in DstPaths : Copy(path, dst_path)
    \/ \E path \in Paths : Delete(path)

Spec == Init /\ [][Next]_vars

----------------------------------------------------------------------------
(* The call-level specification.  A caller runs a short script of calls,   *)
(* one after the other, against a store that other actors have filled: any *)
(* list of up to MaxShared objects.  Each action is one operation, and     *)
(* records the store before it (pre) and what it gave (last, which keeps   *)
(* what the calls before it gave in last.after).                           *)

CallPaths == SegPaths(MaxPathLen)
DstFolders == SegPaths(MaxDstLen)

\* "/x/y/z": a leaf two folders below the root
E2EPaths == {<<Sep, x, Sep, y, Sep, z>> : x \in Letters, y \in Letters, z \in Letters}

CallTo(op, path, arg) == [op |-> op, path |-> path, arg |-> arg, fault |-> NoFault]

OneCall ==
    {CallTo("get_or_create_folder", path, NoPath) : path \in CallPaths}
    \cup {CallTo("create", path, <<mime>>) : path \in CallPaths, mime \in Mimes}
    \cup {CallTo("rename", path, dst_name) : path \in CallPaths, dst_name \in LetterNames}
    \cup {CallTo("move", path, dst_path) : path \in CallPaths, dst_path \in DstFolders}
    \cup {CallTo("copy", path, dst_path) : path \in CallPaths, dst_path \in DstFolders}
    \cup {CallTo("delete", path, NoPath) : path \in CallPaths}

Scripts ==
    {<<c>> : c \in OneCall}
    \cup {<<CallTo("get_or_create_folder", path, NoPath),
            CallTo("get_or_create_folder", path, NoPath)>> : path \in CallPaths}
    \cup {<<CallTo("create", path, <<PlainMime>>),
            CallTo("create", path, <<PlainMime>>),
            CallTo("get_or_create_folder", os_path_split(path).head, NoPath)>> :
                path \in E2EPaths}
    \cup {<<CallTo("delete", path, NoPath), CallTo("delete", path, NoPath)>> :
            path \in CallPaths}

\* stores of two folders under the root and a third object with any parents
\* among them and the root (two parents included)
TwoFolderStores ==
    {<<Obj(1, <<x>>, FOLDER_MIME_TYPE, <<RootId>>), Obj(2, <<y>>, FOLDER_MIME_TYPE, <<RootId>>),
       Obj(3, <<z>>, mime, parents)>> :
        x \in Letters, y \in Letters, z \in Letters, mime \in Mimes,
        parents \in ParentLists({RootId, 1, 2})}

InitCalls ==
    /\ store \in AnyStores(MaxShared) \cup TwoFolderStores
    /\ nextId = Len(store) + 1
    /\ pre = Remote(store, nextId)
    /\ last = NoOutcome
    /\ it = NoIter
    /\ req \in Scripts

\* the remote store as the call at the head of the script meets it
Asked == Failing(Now, Head(req).fault)

\* the head of the script is the call, and r is what it returned
Returned(op, r) ==
    /\ store' = r.s.files
    /\ nextId' = r.s.next
    /\ pre' = Asked
    /\ last' = Outcome(op, Head(req).path, Head(req).arg, r, last)
    /\ req' = Tail(req)
    /\ UNCHANGED it

Called(op) == req # <<>> /\ Head(req).op = op

CallGetOrCreateFolder ==
    /\ Called("get_or_create_folder")
    /\ Returned("get_or_create_folder", get_or_create_folder(Asked, Head(req).path))

CallCreate ==
    /\ Called("create")
    /\ Returned("create", create(Asked, Head(req).path, Head(req).arg[1]))

CallRename ==
    /\ Called("rename")
    /\ Returned("rename", rename(Asked, Head(req).path, Head(req).arg))

CallMove ==
    /\ Called("move")
    /\ Returned("move", move(Asked, Head(req).path, Head(req).arg))

CallCopy ==
    /\ Called("copy")
    /\ Returned("copy", copy(Asked, Head(req).path, Head(req).arg))

CallDelete ==
    /\ Called("delete")
    /\ Returned("delete", delete(Asked, Head(req).path))

NextCalls ==
    \/ CallGetOrCreateFolder
    \/ CallCreate
    \/ CallRename
    \/ CallMove
    \/ CallCopy
    \/ CallDelete

SpecCalls == InitCalls /\ [][NextCalls]_vars

----------------------------------------------------------------------------
(* The fault specification: one call against a store in which the remote   *)
(* calls of one kind fail with an HttpError of one status.  The store is   *)
(* one that the operations keep in order (unique names, folder parents).   *)

Codes == {NotFoundCode, Forbidden, ServerError}

Faults == [api : {"get", "list", "create", "update", "copy", "delete"}, code : Codes]

UnderFault(c, fault) == [c EXCEPT !.fault = fault]

FaultyPaths == NormalPaths(MaxPathLen)

FaultyCalls ==
    {c \in OneCall : c.path \in FaultyPaths /\ (c.op \in {"move", "copy"} => c.arg \in DstPaths)}

InitFaults ==
    /\ store \in {f \in AnyStores(MaxShared) : UniqueNames(f) /\ FolderParents(f)}
    /\ nextId = Len(store) + 1
    /\ pre = Remote(store, nextId)
    /\ last = NoOutcome
    /\ it = NoIter
    /\ req \in {<<UnderFault(c, fault)>> : c \in FaultyCalls, fault \in Faults}

SpecFaults == InitFaults /\ [][NextCalls]_vars

----------------------------------------------------------------------------
(* The walk specification: stat alone, on paths of one-character segments  *)
(* of up to MaxWalkLen characters, against the stores of the calls.        *)

WalkPaths == SegPaths(MaxWalkLen)

InitWalk ==
    /\ store \in AnyStores(MaxShared) \cup TwoFolderStores
    /\ nextId = Len(store) + 1
    /\ pre = Remote(store, nextId)
    /\ last = NoOutcome
    /\ it = NoIter
    /\ req \in [op : {"stat"}, path : WalkPaths]

SpecWalk == InitWalk /\ [][NextPath]_vars

----------------------------------------------------------------------------
(* The race specification: two actors, each with one call of create,       *)
(* rename, move or copy on an object directly under the root.  A call     *)
(* takes two steps, between which the other actor may take its own: the    *)
(* lookups up to the name test (they read the store and write nothing),    *)
(* then the rest of the operation, against the store as it then is.        *)

Actors == {1, 2}

RacePaths == {<<Sep, c>> : c \in Letters}
RaceFolders == {<<Sep>>} \cup RacePaths

RaceCalls ==
    {CallTo("create", path, <<mime>>) : path \in RacePaths, mime \in Mimes}
    \cup {CallTo("rename", path, dst_name) : path \in RacePaths, dst_name \in LetterNames}
    \cup {CallTo("move", path, dst_path) : path \in RacePaths, dst_path \in RaceFolders}
    \cup {CallTo("copy", path, dst_path) : path \in RacePaths, dst_path \in RaceFolders}

\* no lookup was made
NoLookup == Raise(NoErr, <<>>, Remote(<<>>, 1))

\* the lookups of an operation up to its name test
Checks(src, dst, test) == [src |-> src, dst |-> dst, test |-> test]

NoChecks == Checks(NoLookup, NoLookup, NoLookup)

\* rename: stat(path), then the lookup of dst_name under the first parent
RenameChecks(s, dst_name, src) ==
    Checks(src, NoLookup,
           IF src.ok /\ src.rec.parents # <<>>
           THEN _stat(s, dst_name, src.rec.parents[1], FALSE)
           ELSE NoLookup)

\* move and copy: stat(path), stat(dst_path), then the lookup of the
\* source's name under the destination
MoveChecks(s, src, dst) ==
    Checks(src, dst,
           IF src.ok /\ dst.ok THEN _stat(s, src.rec.name, dst.rec.id, FALSE) ELSE NoLookup)

ChecksOf(s, c) ==
    IF c.op = "create" THEN Checks(NoLookup, NoLookup, stat(s, c.path))
    ELSE IF c.op = "rename" THEN RenameChecks(s, c.arg, stat(s, c.path))
    ELSE MoveChecks(s, stat(s, c.path), stat(s, c.arg))

\* the name test found nothing and the operation goes on to its remote mutation
PreCheckPassed(c, k) ==
    /\ NotFoundRaised(k.test)
    /\ c.op # "create" => k.src.ok
    /\ c.op \in {"move", "copy"} => k.dst.ok
    /\ c.op = "move" => k.src.rec.parents # <<>>

\* the operation as a whole, against one store
Whole(s, c) ==
    IF c.op = "create" THEN create(s, c.path, c.arg[1])
    ELSE IF c.op = "rename" THEN rename(s, c.path, c.arg)
    ELSE IF c.op = "move" THEN move(s, c.path, c.arg)
    ELSE copy(s, c.path, c.arg)

\* a variant that starts the operation again on the store as it now is
Revalidated(s, c, k) == Whole(s, c)

\* the operation from the name test on, against the store s as it now is,
\* with the lookups k made before
AfterCheck(s, c, k) ==
    IF c.op = "create" THEN CreateTested(s, c.path, c.arg[1], k.test)
    ELSE IF c.op = "rename"
    THEN After(k.src.calls, RenameTested(s, c.path, c.arg, k.src.rec, k.test))
    ELSE IF c.op = "move"
    THEN After(k.src.calls \o k.dst.calls,
               MoveTested(s, c.path, c.arg, k.src.rec, k.dst.rec, k.test))
    ELSE After(k.src.calls \o k.dst.calls,
               CopyTested(s, c.path, c.arg, k.src.rec, k.dst.rec, k.test))

\* how many remote calls the lookups made
Looked(k) == Len(k.src.calls) + Len(k.dst.calls) + Len(k.test.calls)

Racing(c) == [call |-> c, pc |-> "called", passed |-> FALSE, looked |-> 0, checks |-> NoChecks]

InitRace ==
    /\ store \in {f \in AnyStores(MaxShared) : UniqueNames(f) /\ FolderParents(f)}
    /\ nextId = Len(store) + 1
    /\ pre = Remote(store, nextId)
    /\ last = [a \in Actors |-> NoOutcome]
    /\ it = NoIter
    /\ req \in [Actors -> {Racing(c) : c \in RaceCalls}]

\* the operation of actor a ended with r
RaceEnded(a, c, r) ==
    /\ last' = [last EXCEPT ![a] = Outcome(c.op, c.path, c.arg, r, NoAfter)]
    /\ store' = r.s.files
    /\ nextId' = r.s.next

\* the lookups k are made: the operation ends there, or goes on
RaceChecked(a, c, k) ==
    IF PreCheckPassed(c, k)
    THEN /\ req' = [req EXCEPT ![a].pc = "checked", ![a].passed = TRUE,
                               ![a].looked = Looked(k), ![a].checks = k]
         /\ UNCHANGED <<store, nextId, last>>
    ELSE /\ req' = [req EXCEPT ![a].pc = "done", ![a].looked = Looked(k)]
         /\ RaceEnded(a, c, Whole(Now, c))

RaceCheck(a) ==
    /\ req[a].pc = "called"
    /\ RaceChecked(a, req[a].call, ChecksOf(Now, req[a].call))
    /\ UNCHANGED <<pre, it>>

RaceMutate(a) ==
    /\ req[a].pc = "checked"
    /\ req' = [req EXCEPT ![a].pc = "done"]
    /\ RaceEnded(a, req[a].call, AfterCheck(Now, req[a].call, req[a].checks))
    /\ UNCHANGED <<pre, it>>

NextRace == \E a \in Actors : RaceCheck(a) \/ RaceMutate(a)

SpecRace == InitRace /\ [][NextRace]_vars

----------------------------------------------------------------------------
(* The listing specification: one iter(path, q) run to its end against a   *)
(* store of up to MaxListed objects (the first a folder, every object      *)
(* unparented, a child of the root or a child of the first).  The remote   *)
(* store cuts the result into pages of 1..MaxPage items as it likes and    *)
(* sets incompleteSearch as it likes; the continuation token is the number *)
(* of items served so far.                                                 *)

ListedExtensions(files) ==
    {Append(files, Obj(Len(files) + 1, name, mime, parents)) :
        name \in LetterNames,
        mime \in IF files = <<>> THEN {FOLDER_MIME_TYPE} ELSE {PlainMime},
        parents \in IF files = <<>> THEN {<<>>, <<RootId>>}
                    ELSE {<<>>, <<RootId>>, <<files[1].id>>}}

RECURSIVE ListedStores(_)
ListedStores(n) ==
    IF n = 0 THEN {<<>>}
    ELSE LET smaller == ListedStores(n - 1)
         IN  smaller \cup UNION {ListedExtensions(f) : f \in {g \in smaller : Len(g) = n - 1}}

(* the query of iter: "'<id>' in parents" or sharedWithMe (the objects that *)
(* carry no parent reference), and the caller's q (the folder query)        *)
ParentsQuery(parent_id, q) == [shared |-> FALSE, parent_id |-> parent_id, q |-> q]
SharedQuery(q) == [shared |-> TRUE, parent_id |-> NoParent, q |-> q]

Matching(files, qry) ==
    SelectSeq(files, LAMBDA o :
        /\ (qry.shared => o.parents = <<>>)
        /\ (~qry.shared => InSeq(qry.parent_id, o.parents))
        /\ (qry.q => o.mime = FOLDER_MIME_TYPE))

Min(a, b) == IF a <= b THEN a ELSE b

(* files().list(q, pageToken): the page of k items after the token *)
PageFrom(items, start, k, incomplete) ==
    [files |-> SubSeq(items, start + 1, Min(start + k, Len(items))),
     nextPageToken |-> IF start + k < Len(items) THEN start + k ELSE NoToken,
     incompleteSearch |-> incomplete]

FilesListPage(files, qry, pageToken, k, incomplete) ==
    PageFrom(Matching(files, qry), IF pageToken = NoToken THEN 0 ELSE pageToken, k, incomplete)

\* a variant that asks for the same page again
SamePageToken(pageToken, response) == pageToken

\* list_params['pageToken'] = response['nextPageToken']
NextPageToken(pageToken, response) == response.nextPageToken

(* The generator of iter runs only inside a next() of the caller: wanted is *)
(* set by next() and reset when an item is handed over or the generator     *)
(* ends; stopped is set when the caller drops the generator, and            *)
(* askedWhenStopped is the number of requests issued by then.               *)
Started(qry) ==
    [pc |-> "request", qry |-> qry, pageToken |-> NoToken, asked |-> <<>>, served |-> <<>>,
     response |-> PageFrom(<<>>, 0, 0, FALSE), pos |-> 1, yielded |-> <<>>, warned |-> FALSE,
     wanted |-> TRUE, stopped |-> FALSE, askedWhenStopped |-> 0]

\* a variant that runs the generator whether or not the caller asked
AlwaysResumed(i) == TRUE

\* the generator is resumed: the caller is inside next() and has not dropped it
Resumed(i) == i.wanted /\ ~i.stopped

InitList ==
    /\ store \in ListedStores(MaxListed)
    /\ nextId = Len(store) + 1
    /\ pre = Remote(store, nextId)
    /\ last = NoOutcome
    /\ it = NoIter
    /\ req \in [op : {"iter"}, path : SegPaths(MaxDstLen), q : BOOLEAN]

\* iter up to the loop, r being stat(path): it raises what stat raises
IterResolved(r) ==
    IF r.ok
    THEN /\ it' = Started(ParentsQuery(r.rec.id, req.q))
         /\ UNCHANGED last
    ELSE /\ it' = [pc |-> "raised"]
         /\ last' = Outcome("iter", req.path, NoPath, r, last)

IterStart ==
    /\ req.op = "iter" /\ it.pc = "idle"
    /\ IF req.path = <<Sep>>
       THEN it' = Started(ParentsQuery(RootId, req.q)) /\ UNCHANGED last
       ELSE IF req.path # <<>>
       THEN IterResolved(stat(Now, req.path))
       ELSE it' = Started(SharedQuery(req.q)) /\ UNCHANGED last
    /\ req' = NoReq
    /\ UNCHANGED <<store, nextId, pre>>

\* the request at the top of the loop, and the page the store answers with
IterRequest(k, incomplete) ==
    /\ it.pc = "request" /\ Resumed(it)
    /\ it' = [it EXCEPT !.pc = "yield",
                        !.response = FilesListPage(store, it.qry, it.pageToken, k, incomplete),
                        !.pos = 1,
                        !.asked = Append(@, it.pageToken),
                        !.served = Append(@, FilesListPage(store, it.qry, it.pageToken,
                                                           k, incomplete))]
    /\ UNCHANGED <<store, nextId, pre, last, req>>

IterYield ==
    /\ it.pc = "yield" /\ Resumed(it) /\ it.pos <= Len(it.response.files)
    /\ it' = [it EXCEPT !.yielded = Append(@, it.response.files[it.pos]), !.pos = @ + 1,
                        !.wanted = FALSE]
    /\ UNCHANGED <<store, nextId, pre, last, req>>

IterNextPage ==
    /\ it.pc = "yield" /\ Resumed(it) /\ it.pos > Len(it.response.files)
    /\ it.response.nextPageToken # NoToken
    /\ it' = [it EXCEPT !.pc = "request",
                        !.pageToken = NextPageToken(it.pageToken, it.response)]
    /\ UNCHANGED <<store, nextId, pre, last, req>>

\* the break and the warning after the loop
IterStop ==
    /\ it.pc = "yield" /\ Resumed(it) /\ it.pos > Len(it.response.files)
    /\ it.response.nextPageToken = NoToken
    /\ it' = [it EXCEPT !.pc = "done", !.warned = it.response.incompleteSearch,
                        !.wanted = FALSE]
    /\ UNCHANGED <<store, nextId, pre, last, req>>

\* the caller asks for the next item: next() on the generator
CallerNext ==
    /\ it.pc = "yield" /\ ~it.wanted /\ ~it.stopped
    /\ it' = [it EXCEPT !.wanted = TRUE]
    /\ UNCHANGED <<store, nextId, pre, last, req>>

\* the caller stops after an item and drops the generator
CallerStop ==
    /\ it.pc = "yield" /\ ~it.wanted /\ ~it.stopped
    /\ it' = [it EXCEPT !.stopped = TRUE, !.askedWhenStopped = Len(it.asked)]
    /\ UNCHANGED <<store, nextId, pre, last, req>>

NextList ==
    \/ IterStart
    \/ \E k \in 1..MaxPage, incomplete \in BOOLEAN : IterRequest(k, incomplete)
    \/ IterYield
    \/ IterNextPage
    \/ IterStop
    \/ CallerNext
    \/ CallerStop

SpecList == InitList /\ [][NextList]_vars

(* The generator runs on whenever the caller is inside next(), and a caller *)
(* that consumes the listing asks for the next item after each one, unless  *)
(* it drops the generator.                                                  *)
ListFairness ==
    /\ WF_vars(IterStart)
    /\ WF_vars(\E k \in 1..MaxPage, incomplete \in BOOLEAN : IterRequest(k, incomplete))
    /\ WF_vars(IterYield)
    /\ WF_vars(IterNextPage)
    /\ WF_vars(IterStop)
    /\ WF_vars(CallerNext)

SpecListLive == InitList /\ [][NextList]_vars /\ ListFairness

----------------------------------------------------------------------------
(* Properties of stat, under SpecPath *)

StatDone == last.op = "stat"

IsName(n) == n # <<>> /\ \A k \in 1..Len(n) : n[k] \in Letters

OnlySeparators(p) == p # <<>> /\ AllSep(p)

EndsInSepAfterName(p) == p # <<>> /\ p[Len(p)] = Sep /\ ~AllSep(p)

RootGet == Call("get", RootId, <<>>, NoParent, FALSE)

HasRootChild(n) == \E k \in 1..Len(store) : store[k].name = n /\ InSeq(RootId, store[k].parents)
HasUnparented(n) == \E k \in 1..Len(store) : store[k].name = n /\ store[k].parents = <<>>

StatNow(path) == stat(Remote(store, nextId), path)

\* C2: stat("name") never returns an object whose parents include the root,
\* stat("/name") never returns an object without parent references, and when
\* a child of the root and an unparented object both carry the name, both
\* calls succeed and return different objects.
C2_RootedAndUnparentedIndependent ==
    StatDone =>
        /\ (IsName(last.path) /\ last.ok) => ~InSeq(RootId, last.rec.parents)
        /\ \A n \in {m \in Strings(MaxStrLen) : IsName(m)} :
              last.path = <<Sep>> \o n =>
                 /\ last.ok => (last.rec.parents # <<>> /\ InSeq(RootId, last.rec.parents))
                 /\ (HasRootChild(n) /\ HasUnparented(n)) =>
                       /\ last.ok /\ last.rec.name = n
                       /\ StatNow(n).ok /\ StatNow(n).rec.name = n
                       /\ StatNow(n).rec.id # last.rec.id

C2_Witness ==
    /\ StatDone /\ last.path = <<Sep, "a">> /\ last.ok
    /\ HasRootChild(<<"a">>) /\ HasUnparented(<<"a">>)

\* C8: a path of one or more separators and nothing else normalises to the
\* single separator, and stat returns the root record from one get of the
\* root id, with no list query.
C8_SeparatorsResolveToRoot ==
    (StatDone /\ OnlySeparators(last.path)) =>
        /\ RE_PATH_DUP_SLASH_sub(last.path) = <<Sep>>
        /\ last.ok /\ last.rec = RootRec
        /\ last.calls = <<RootGet>>

C8_Witness ==
    StatDone /\ last.path = <<Sep, Sep, Sep>> /\ last.ok /\ Len(store) = MaxShared

\* C9 as stated: stat fails with NotFound for the empty path and for every
\* path that ends in separators after a name.
C9_EmptyFinalSegmentNotFound ==
    (StatDone /\ (last.path = <<>> \/ EndsInSepAfterName(last.path))) =>
        (~last.ok /\ last.err.kind = "NotFound")

\* C9 amended: stat("") fails with NotFound; a path that ends in separators
\* after a name resolves exactly as the path without those separators does
\* (same record, same calls), and when it fails the error is NotFound
\* carrying the path as it was passed.
C9_TrailingSeparatorsIgnored ==
    StatDone =>
        /\ last.path = <<>> => (~last.ok /\ last.err.kind = "NotFound" /\ last.calls = <<>>)
        /\ EndsInSepAfterName(last.path) =>
              LET bare == StatNow(RStripSep(last.path))
              IN  /\ last.ok = bare.ok
                  /\ last.rec = bare.rec
                  /\ last.calls = bare.calls
                  /\ ~last.ok => (last.err.kind = "NotFound" /\ last.err.filename = last.path)

C9_Witness ==
    StatDone /\ last.path = <<Sep, "a", Sep>> /\ last.ok /\ last.rec.name = <<"a">>

----------------------------------------------------------------------------
(* Properties of the store, under Spec *)

\* C1 as stated: from a store in which no parent has two children with the
\* same name, after any sequence of the core operations no parent has two
\* children with the same name.
C1_NoDuplicateNames == UniqueNames(store)

----------------------------------------------------------------------------
(* Properties of the calls, under SpecCalls *)

IsMutation(c) == c.api \in {"create", "update", "copy", "delete"}

Mutations(calls) == SelectSeq(calls, IsMutation)

StoreAsBefore == store = pre.files /\ nextId = pre.next

FailedWith(o, kind) == ~o.ok /\ o.err.kind = kind

HasChild(files, parent_id, name) ==
    \E k \in 1..Len(files) : files[k].name = name /\ InSeq(parent_id, files[k].parents)

RECURSIVE WalkParent(_, _, _, _)
WalkParent(s, name, parent_id, rest) ==
    IF Len(rest) >= 1
    THEN WalkParent(s, rest[Len(rest)], _stat(s, name, parent_id, TRUE).rec.id,
                    SubSeq(rest, 1, Len(rest) - 1))
    ELSE parent_id

\* the parent under which the last segment of a resolving path was looked up
ResolvedParent(s, path) ==
    WalkParent(s, rsplit_path(path).name, rsplit_path(path).parent_id, rsplit_path(path).rest)

TwiceEnsured ==
    /\ last.op = "get_or_create_folder"
    /\ last.after.op = "get_or_create_folder"
    /\ last.after.path = last.path
    /\ last.after.ok

\* C3: when get_or_create_folder succeeded on a path and is called again on
\* the same path with nothing in between, the second call succeeds, returns
\* the record with the same id, issues no creation call (no mutation at all),
\* and leaves the store as it was.
C3_EnsureFolderIdempotent ==
    TwiceEnsured =>
        /\ last.ok
        /\ last.rec.id = last.after.rec.id
        /\ Mutations(last.calls) = <<>>
        /\ StoreAsBefore

C3_Witness ==
    /\ TwiceEnsured
    /\ last.path = <<Sep, "a", Sep, "b">>
    /\ Len(Mutations(last.after.calls)) = 2
    /\ last.ok

\* the creation calls of create("/x/y/z") on a store whose next id is n and
\* where the root has no child x
E2ECreations(P, n) ==
    <<Call("create", n, <<P[2]>>, RootId, TRUE),
      Call("create", n + 1, <<P[4]>>, n, TRUE),
      Call("create", n + 2, <<P[6]>>, n + 1, FALSE)>>

FirstCreate(o, P) ==
    /\ o.op = "create" /\ o.path = P /\ o.after.op = "none"

\* C4: create("/x/y/z") of a plain file, on a store where the root has no
\* child x, succeeds and its mutation calls are exactly the creation of
\* folder x under the root, of folder y under x and of z under y, in that
\* order; the same create called again fails with Exists carrying the
\* path; get_or_create_folder("/x/y") called after that returns the folder y
\* that the first call created.
C4_EndToEndCreate ==
    \A P \in E2EPaths :
        /\ (FirstCreate(last, P) /\ ~HasChild(pre.files, RootId, <<P[2]>>)) =>
              /\ last.ok
              /\ Mutations(last.calls) = E2ECreations(P, pre.next)
              /\ last.rec.id = pre.next + 2
        /\ (last.op = "create" /\ last.path = P /\ FirstCreate(last.after, P)
            /\ last.after.ok /\ Len(Mutations(last.after.calls)) = 3) =>
              /\ FailedWith(last, "Exists")
              /\ last.err.filename = P
              /\ last.err.errno = EEXIST
        /\ (last.op = "get_or_create_folder" /\ last.after.op = "create"
            /\ last.after.path = P /\ FirstCreate(last.after.after, P)
            /\ last.after.after.ok /\ Len(Mutations(last.after.after.calls)) = 3) =>
              /\ last.ok
              /\ last.rec.id = Mutations(last.after.after.calls)[2].id
              /\ last.rec.name = <<P[4]>>
              /\ Mutations(last.calls) = <<>>

C4_Witness ==
    /\ req = <<>>
    /\ last.op = "get_or_create_folder" /\ last.ok
    /\ last.path = <<Sep, "a", Sep, "b">>
    /\ last.after.op = "create" /\ FailedWith(last.after, "Exists")
    /\ last.after.after.op = "create" /\ last.after.after.ok
    /\ Len(Mutations(last.after.after.calls)) = 3
    /\ Len(store) = MaxShared + 3

\* C5 as stated: rename(p, n) fails with Exists whenever an object named n
\* exists under the parent through which p was resolved, and then the store
\* is as it was.
C5_RenameSiblingRefused ==
    (last.op = "rename" /\ stat(pre, last.path).ok
     /\ ResolvedParent(pre, last.path) # NoParent
     /\ HasChild(pre.files, ResolvedParent(pre, last.path), last.arg)) =>
        /\ FailedWith(last, "Exists")
        /\ StoreAsBefore

MoveOrCopy(op) ==
    /\ last.op = op
    /\ stat(pre, last.path).ok
    /\ stat(pre, last.arg).ok

\* C6: move(p, d) and copy(p, d), when both paths resolve, fail with Exists
\* whenever an object with the source's name has the object resolved from d
\* among its parents, the source itself included (d is the source's current
\* parent); the error's filename is os.path.join(d, os.path.split(p)[1]).
C6_SameNameAtDestinationRefused ==
    \A op \in {"move", "copy"} :
        (MoveOrCopy(op)
         /\ HasChild(pre.files, stat(pre, last.arg).rec.id, stat(pre, last.path).rec.name)) =>
            /\ FailedWith(last, "Exists")
            /\ last.err.filename = os_path_join(last.arg, os_path_split(last.path).tail)

C6_Witness ==
    /\ MoveOrCopy("move")
    /\ last.path = <<Sep, "a", Sep, "b">> /\ last.arg = <<Sep, "a">>
    /\ InSeq(stat(pre, last.arg).rec.id, stat(pre, last.path).rec.parents)
    /\ FailedWith(last, "Exists")

\* C7: when create, rename, move or copy raises Exists, it has issued no
\* mutation call, and the store is as it was before the call.
C7_ExistsBeforeAnyMutation ==
    (last.op \in {"create", "rename", "move", "copy"} /\ FailedWith(last, "Exists")) =>
        /\ Mutations(last.calls) = <<>>
        /\ StoreAsBefore

C7_Witness ==
    /\ last.op = "create" /\ FailedWith(last, "Exists")
    /\ last.path = <<Sep, "a", Sep, "b">>
    /\ last.calls # <<>>

----------------------------------------------------------------------------
(* Properties of the listing, under SpecList *)

Listing == it.pc \in {"request", "yield", "done"}

RECURSIVE PagesItems(_)
PagesItems(pages) ==
    IF pages = <<>> THEN <<>> ELSE Head(pages).files \o PagesItems(Tail(pages))

IsPrefix(a, b) == Len(a) <= Len(b) /\ SubSeq(b, 1, Len(a)) = a

\* C10: a listing yields the items of the pages served, page after page and
\* in each page's order, each once: what it has yielded is always a prefix
\* of the pages' items, and at its end it is all of them, which are the
\* matching objects of the store, each once.  The first request carries no
\* token and every later one the token of the response before it; the
\* listing ends only on a response without a token.
C10_EveryPageItemOnceInOrder ==
    Listing =>
        /\ IsPrefix(it.yielded, PagesItems(it.served))
        /\ Len(it.asked) = Len(it.served)
        /\ \A k \in 1..Len(it.asked) :
              it.asked[k] = IF k = 1 THEN NoToken ELSE it.served[k - 1].nextPageToken
        /\ \A k \in 1..(Len(it.served) - 1) : it.served[k].nextPageToken # NoToken
        /\ it.pc = "done" =>
              /\ it.yielded = PagesItems(it.served)
              /\ it.yielded = Matching(store, it.qry)
              /\ it.served[Len(it.served)].nextPageToken = NoToken

C10_Witness ==
    /\ it.pc = "done"
    /\ Len(it.served) = MaxListed
    /\ Len(it.yielded) = MaxListed
    /\ it.qry = ParentsQuery(RootId, FALSE)

\* the pages served before the one being handed out
EarlierPages == SubSeq(it.served, 1, Len(it.served) - 1)

\* C11: a page is requested only inside a next() of the caller and only when
\* every item of the pages before it has been handed over; while the caller
\* holds an item and has not asked again, the items handed over are exactly
\* those up to that item and no page beyond its page has been requested; once
\* the caller has stopped, no further request is issued.
C11_ListingIsLazy ==
    Listing =>
        /\ Len(it.served) >= 1 => IsPrefix(PagesItems(EarlierPages), it.yielded)
        /\ Len(it.yielded) = Len(PagesItems(EarlierPages)) + (it.pos - 1)
        /\ it.pc = "request" => (it.wanted /\ it.yielded = PagesItems(it.served))
        /\ it.stopped => Len(it.asked) = it.askedWhenStopped

C11_Witness ==
    /\ it.pc = "yield" /\ it.stopped
    /\ Len(it.yielded) = 1
    /\ Len(it.asked) = 1
    /\ it.response.nextPageToken # NoToken
    /\ Len(Matching(store, it.qry)) = MaxListed

\* C12 as stated: a listing consumed to its end has warned whenever some page
\* of it came with incompleteSearch true.
C12_WarnsWhenAnyPageIncomplete ==
    it.pc = "done" =>
        ((\E k \in 1..Len(it.served) : it.served[k].incompleteSearch) => it.warned)

----------------------------------------------------------------------------
(* Properties of the errors *)

\* what the store answers to the list query of one lookup
Answer(files, c) == Unparented(c.parent, FilesList(files, c.name, c.parent, c.q))

\* every query but the last found something, and the last found nothing
StoppedAtFailingHop(files, calls) ==
    /\ \A k \in 1..Len(calls) : calls[k].api = "list"
    /\ \A k \in 1..(Len(calls) - 1) :
          /\ Answer(files, calls[k]) # <<>>
          /\ calls[k + 1].parent = Answer(files, calls[k])[1].id
    /\ calls # <<>> => Answer(files, calls[Len(calls)]) = <<>>

\* C13 (under SpecPath): when stat(p) fails with NotFound, at whichever hop,
\* the error's filename is p as it was passed and its errno is ENOENT; the
\* queries issued are those of the hops up to the failing one, whose query is
\* the last.
C13_NotFoundCarriesThePath ==
    (StatDone /\ FailedWith(last, "NotFound")) =>
        /\ last.err.filename = last.path
        /\ last.err.errno = ENOENT
        /\ StoppedAtFailingHop(store, last.calls)
        /\ Len(last.calls) <= Len(rsplit_path(last.path).rest) + 1

C13_Witness ==
    /\ StatDone /\ FailedWith(last, "NotFound")
    /\ last.path = <<"a", Sep, "b">>
    /\ Len(last.calls) = 2
    /\ Len(store) = MaxShared

WalksAPath(op) ==
    op \in {"get_or_create_folder", "create", "rename", "move", "copy", "delete"}

\* C14 as stated (under SpecCalls): a NotFound raised by an operation that
\* walks a path carries a path the caller passed (the path, or for move and
\* copy the destination path), never a segment name.
C14_NotFoundCarriesCallerPath ==
    (WalksAPath(last.op) /\ FailedWith(last, "NotFound")) =>
        \/ last.err.filename = last.path
        \/ last.op \in {"move", "copy"} /\ last.err.filename = last.arg

NotRooted(p) == p = <<>> \/ p[1] # Sep

\* the lookup of the anchor of a path that does not start at the root: among
\* the unparented objects, as a folder when segments follow
AnchorOf(s, sp) == _stat(s, sp.name, NoParent, sp.rest # <<>>)

\* C15 as stated (under SpecCalls): get_or_create_folder(p) fails with
\* NotFound and leaves the store as it was for every path p that does not
\* start at the root.
C15_UnrootedAlwaysRefused ==
    (last.op = "get_or_create_folder" /\ NotRooted(last.path)) =>
        (FailedWith(last, "NotFound") /\ StoreAsBefore)

\* C15 amended: for a path p that does not start at the root,
\* get_or_create_folder(p) fails with NotFound, issues no creation call and
\* leaves the store as it was when the anchor of p does not resolve among the
\* unparented objects; when the anchor resolves, the call succeeds.
C15_UnresolvedAnchorRefused ==
    (last.op = "get_or_create_folder" /\ NotRooted(last.path)) =>
        /\ ~AnchorOf(pre, rsplit_path(last.path)).ok =>
              /\ FailedWith(last, "NotFound")
              /\ Mutations(last.calls) = <<>>
              /\ StoreAsBefore
        /\ AnchorOf(pre, rsplit_path(last.path)).ok => last.ok

C15_Witness ==
    /\ last.op = "get_or_create_folder" /\ last.after.op = "none"
    /\ last.path = <<"a", Sep, "b">>
    /\ FailedWith(last, "NotFound")
    /\ HasChild(store, RootId, <<"a">>)

UnparentedIds(files) == {files[k].id : k \in {j \in 1..Len(files) : files[j].parents = <<>>}}

\* C16 (under SpecCalls): get_or_create_folder, create and copy add no
\* object without a parent reference: the unparented objects after the call
\* were unparented objects before it, every creation and copy call names a parent id, and
\* every object the operation added has exactly the parent of its call.
C16_NoUnparentedObjectAdded ==
    last.op \in {"get_or_create_folder", "create", "copy"} =>
        /\ UnparentedIds(store) \subseteq UnparentedIds(pre.files)
        /\ \A k \in 1..Len(last.calls) :
              last.calls[k].api \in {"create", "copy"} => last.calls[k].parent # NoParent
        /\ \A k \in 1..Len(store) :
              store[k].id >= pre.next => Len(store[k].parents) = 1

C16_Witness ==
    /\ last.op = "create" /\ last.after.op = "none"
    /\ last.path = <<"a", Sep, "b">>
    /\ FailedWith(last, "NotFound")
    /\ Mutations(last.calls) = <<>>
    /\ UnparentedIds(store) # {}

OthersAsBefore(id) ==
    /\ Len(store) = Len(pre.files)
    /\ \A k \in 1..Len(store) : store[k].id # id => store[k] = pre.files[k]

----------------------------------------------------------------------------
(* Transport failures *)

\* the last call ended at a remote call of the failing kind (a KeyError is
\* raised by the client itself, after a lookup it took as "not there")
EndedAtFault ==
    /\ last.op # "none"
    /\ ~FailedWith(last, "KeyError")
    /\ pre.fault # NoFault
    /\ last.calls # <<>>
    /\ last.calls[Len(last.calls)].api = pre.fault.api

(* C18: for each remote call made by a core operation, a transport failure *)
(* with code 404 surfaces to the caller as NotFound, a failure with code   *)
(* 403 on the delete call surfaces as PermissionDenied carrying the        *)
(* caller's path as filename and the remote message, and a failure with    *)
(* any other code propagates to the caller unchanged.                      *)
C18_TransportFailuresMapped ==
    EndedAtFault =>
        IF pre.fault.code = NotFoundCode
        THEN FailedWith(last, "NotFound")
        ELSE IF pre.fault.code = Forbidden /\ pre.fault.api = "delete"
        THEN /\ FailedWith(last, "Permission")
             /\ last.err.filename = last.path
             /\ last.err.strerror = RemoteMessage
        ELSE ~last.ok /\ last.err = HttpError(pre.fault.code)

----------------------------------------------------------------------------
(* delete *)

DeleteCalls(calls) == SelectSeq(calls, LAMBDA c : c.api = "delete")

\* what a delete of path does against the remote store s, given the lookup
DeleteAsResolved(o, src) ==
    IF src.ok
    THEN /\ Len(DeleteCalls(o.calls)) = 1
         /\ DeleteCalls(o.calls)[1].id = src.rec.id
    ELSE /\ FailedWith(o, "NotFound")
         /\ o.err.filename = o.path
         /\ DeleteCalls(o.calls) = <<>>

(* C19: delete(p) on a path that does not resolve raises NotFound tagged   *)
(* with p and issues no remote delete call; on a path that resolves it     *)
(* issues exactly one delete call, for the id of the resolved object.      *)
C19_DeleteOnlyWhatResolved ==
    last.op = "delete" => DeleteAsResolved(last, stat(pre, last.path))

\* a delete that removed the object, then a delete of the same path that
\* found nothing and called nothing
C19_Witness ==
    /\ last.op = "delete"
    /\ last.after.op = "delete"
    /\ last.after.ok
    /\ Len(DeleteCalls(last.after.calls)) = 1
    /\ FailedWith(last, "NotFound")
    /\ last.err.filename = last.path
    /\ DeleteCalls(last.calls) = <<>>

----------------------------------------------------------------------------
(* rename and move of objects without parents *)

TypedErrors == {"NotFound", "Exists", "Permission", "HttpError"}

(* C20: for every path that resolves, including the root and unparented    *)
(* (shared) objects whose records carry no parents field, rename and move  *)
(* end either by returning the updated record or by reporting a typed      *)
(* error (NotFound, AlreadyExists, PermissionDenied, or an unmapped        *)
(* transport error passed through); they never fail in any other way.      *)
C20_RenameMoveEndTyped ==
    (last.op \in {"rename", "move"} /\ stat(pre, last.path).ok) =>
        \/ last.ok /\ last.rec.id = stat(pre, last.path).rec.id
        \/ ~last.ok /\ last.err.kind \in TypedErrors

----------------------------------------------------------------------------
(* errno of the NotFound errors of stat *)

(* C21: every NotFound error raised by stat/_stat carries errno 404, both  *)
(* when the path is empty (stat('')) and when the name query returns no    *)
(* matching object (e.g. stat('/quickstart') with no such child of root).  *)
C21_NotFoundErrnoIs404 ==
    (last.op = "stat" /\ FailedWith(last, "NotFound")) => last.err.errno = NotFoundCode

----------------------------------------------------------------------------
(* rsplit_path *)

\* the non-empty segments of p from position i on, cur being the segment
\* that is being read
RECURSIVE SegmentsFrom(_, _, _)
SegmentsFrom(p, i, cur) ==
    IF i > Len(p) THEN (IF cur = <<>> THEN <<>> ELSE <<cur>>)
    ELSE IF p[i] = Sep
         THEN (IF cur = <<>> THEN <<>> ELSE <<cur>>) \o SegmentsFrom(p, i + 1, <<>>)
    ELSE SegmentsFrom(p, i + 1, Append(cur, p[i]))

Segments(p) == SegmentsFrom(p, 1, <<>>)

\* the segments joined by one separator each, after lead
RECURSIVE Joined(_, _)
Joined(lead, segs) ==
    IF segs = <<>> THEN lead
    ELSE IF Len(segs) = 1 THEN lead \o segs[1]
    ELSE Joined(lead \o segs[1] \o <<Sep>>, Tail(segs))

\* p with every run of separators collapsed to one and none at the end
Collapsed(p) == Joined(IF p[1] = Sep THEN <<Sep>> ELSE <<>>, Segments(p))

\* the anchor is the first segment, under the root when p starts with a
\* separator, and the k-th pop of the list gives segment k + 1
SplitBySegments(o, p, segs) ==
    /\ o.name = segs[1]
    /\ o.parent_id = (IF p[1] = Sep THEN RootId ELSE NoParent)
    /\ Len(o.rest) = Len(segs) - 1
    /\ \A k \in 1..Len(o.rest) : o.rest[Len(o.rest) - k + 1] = segs[k + 1]

(* C22: for a path whose non-empty segments are s1..sn (n >= 1), with any  *)
(* run of separators between segments and any number of trailing           *)
(* separators, rsplit_path returns the anchor {name: s1, parent_id: root}  *)
(* if the path starts with a separator and {name: s1} otherwise, together  *)
(* with a stack from which s2..sn are popped in that order; the result is  *)
(* the same as for the path with every separator run collapsed to one and  *)
(* trailing separators removed.                                            *)
C22_SplitBySegments ==
    (last.op = "rsplit_path" /\ Segments(last.path) # <<>>) =>
        /\ SplitBySegments(last, last.path, Segments(last.path))
        /\ last = Split(last.path, rsplit_path(Collapsed(last.path)))

\* three segments, a run of separators in the middle and a separator at
\* the end: the list holds the leaf first
C22_Witness ==
    /\ last.op = "rsplit_path"
    /\ last.path = <<"a", Sep, Sep, "b", Sep, "a", Sep>>
    /\ last.name = <<"a">>
    /\ last.parent_id = NoParent
    /\ last.rest = << <<"a">>, <<"b">> >>

----------------------------------------------------------------------------
(* The walk of stat *)

\* the objects that answer a lookup when their type is left out of account
OfAnyType(files, c) == Unparented(c.parent, FilesList(files, c.name, c.parent, FALSE))

NoFolderIn(items) == \A k \in 1..Len(items) : items[k].mime # FOLDER_MIME_TYPE

\* the id resolved for segment k: the parent of the next lookup, or the
\* returned record for the last segment
ResolvedId(o, k) == IF k < Len(o.calls) THEN o.calls[k + 1].parent ELSE o.rec.id

\* object obj is segment k of the path p: it has the name, it hangs under
\* the object resolved before it (the first one under the root or under
\* nothing), and it is a folder unless it is the last of the n segments
IsSegment(files, o, p, segs, k, obj) ==
    /\ obj.name = segs[k]
    /\ IF k > 1 THEN InSeq(ResolvedId(o, k - 1), obj.parents)
       ELSE IF p[1] = Sep THEN InSeq(RootId, obj.parents)
       ELSE obj.parents = <<>>
    /\ k < Len(segs) => obj.mime = FOLDER_MIME_TYPE

WalkedAsFolders(files, o, p, segs) ==
    /\ \A k \in 1..Len(o.calls) : o.calls[k].api = "list" /\ o.calls[k].q = (k < Len(segs))
    /\ o.ok =>
          /\ Len(o.calls) = Len(segs)
          /\ \A k \in 1..Len(segs) :
                /\ \E j \in 1..Len(files) : files[j].id = ResolvedId(o, k)
                /\ IsSegment(files, o, p, segs, k, WithId(files, ResolvedId(o, k)))
    /\ \A k \in 1..Len(o.calls) :
          (k < Len(segs) /\ NoFolderIn(OfAnyType(files, o.calls[k]))) =>
              FailedWith(o, "NotFound") /\ Len(o.calls) = k

(* C23: stat(p) for a multi-segment path succeeds only if every non-final  *)
(* segment resolves, under the parent resolved for the previous segment,   *)
(* to an object of folder type; the final segment is resolved under the    *)
(* last resolved folder without any type restriction, so a non-folder      *)
(* object occurring as an intermediate segment makes stat fail with        *)
(* NotFound even when it has a child with the next name.                   *)
C23_IntermediateSegmentsAreFolders ==
    (last.op = "stat" /\ Len(Segments(last.path)) >= 2) =>
        WalkedAsFolders(store, last, last.path, Segments(last.path))

\* a plain file 'a' under the root with a child 'b': stat('/a/b') stops at
\* the lookup of 'a'
C23_Witness ==
    /\ last.op = "stat"
    /\ last.path = <<Sep, "a", Sep, "b">>
    /\ Len(store) = 2
    /\ store[1] = Obj(1, <<"a">>, PlainMime, <<RootId>>)
    /\ store[2].name = <<"b">> /\ store[2].parents = <<1>>
    /\ FailedWith(last, "NotFound")
    /\ Len(last.calls) = 1

----------------------------------------------------------------------------
(* The single-segment lookup *)

\* the positions in the store of the objects with the name, without parent
\* references when parent_id is NoParent, with parent_id among them otherwise
Candidates(files, name, parent_id) ==
    {k \in 1..Len(files) :
        /\ files[k].name = name
        /\ IF parent_id = NoParent THEN files[k].parents = <<>>
           ELSE InSeq(parent_id, files[k].parents)}

FirstOf(ks) == CHOOSE k \in ks : \A m \in ks : k <= m

FirstCandidate(files, o, ks) ==
    IF ks = {} THEN FailedWith(o, "NotFound")
    ELSE o.ok /\ o.rec = files[FirstOf(ks)]

(* C24: a single-segment lookup (_stat) with no parent id never returns an *)
(* object that carries parent references: results with a parents field are *)
(* discarded, NotFound is raised if none remain, and otherwise the first   *)
(* remaining result in the order returned by the store is the answer; with *)
(* a parent id, the first result of the query is the answer and the others *)
(* are ignored.                                                            *)
C24_FirstCandidateIsTheAnswer ==
    (last.op = "stat" /\ Len(Segments(last.path)) = 1) =>
        /\ last.path[1] # Sep => (last.ok => last.rec.parents = <<>>)
        /\ FirstCandidate(store, last,
                          Candidates(store, Segments(last.path)[1],
                                     IF last.path[1] = Sep THEN RootId ELSE NoParent))

\* 'a' under the root listed first and an unparented 'a' after it: the
\* lookup of 'a' without parent id answers the unparented one
C24_Witness ==
    /\ last.op = "stat"
    /\ last.path = <<"a">>
    /\ Len(store) = 3
    /\ store[1].name = <<"a">> /\ store[3].name = <<"a">>
    /\ store[3].parents = <<>>
    /\ last.ok
    /\ last.rec.id = 3

----------------------------------------------------------------------------
(* Two actors *)

MutationCalls(calls) == {k \in 1..Len(calls) : calls[k].api \in {"create", "update", "copy"}}

\* the operation of an actor that passed its name test: one remote mutation,
\* its last call, no lookup after the test, and the outcome the remote
\* mutation gave (never AlreadyExists)
MutatedOnce(o, looked) ==
    /\ MutationCalls(o.calls) = {Len(o.calls)}
    /\ Len(o.calls) > looked
    /\ \A k \in (looked + 1)..Len(o.calls) : o.calls[k].api # "list"
    /\ o.ok \/ FailedWith(o, "HttpError")

\* the actors whose operation has ended
Ended(a) == req[a].pc = "done"

----------------------------------------------------------------------------
(* The end of a listing *)

Listed == it.pc \in {"request", "yield", "done"}

\* the first call carries no token, every further call the token of the
\* page before it, and no call follows a page without token
TokensChained(asked, served) ==
    /\ Len(served) = Len(asked)
    /\ asked # <<>> => asked[1] = NoToken
    /\ \A k \in 1..(Len(asked) - 1) :
          /\ served[k].nextPageToken # NoToken
          /\ asked[k + 1] = served[k].nextPageToken

EndsAtTokenlessPage ==
    /\ it.pc = "done" => it.served[Len(it.served)].nextPageToken = NoToken
    /\ (it.pc = "request" /\ it.asked # <<>>) =>
          /\ it.served[Len(it.served)].nextPageToken # NoToken
          /\ it.pageToken = it.served[Len(it.served)].nextPageToken

\* the listing is over: to its end, by an error of stat, or dropped
ListingOver == it.pc \in {"done", "raised"} \/ (Listed /\ it.stopped)

(* C26: a fully consumed listing terminates: it issues one list call per   *)
(* page, passing to each call the continuation token returned by the       *)
(* previous page, and ends right after the first page that carries no      *)
(* continuation token; it therefore terminates whenever the store          *)
(* eventually returns such a page, and never requests a page after it.     *)
C26_ConsumedListingTerminates ==
    /\ [](Listed => TokensChained(it.asked, it.served) /\ EndsAtTokenlessPage)
    /\ <>ListingOver

\* a listing of MaxListed pages consumed to its end
C26_Witness ==
    /\ it.pc = "done"
    /\ ~it.stopped
    /\ Len(it.asked) = MaxListed
    /\ Len(it.yielded) = MaxListed

----------------------------------------------------------------------------
(* create, then stat *)

(* C27: round trip of create: for every path p on which create(p)          *)
(* succeeds, an immediately following stat(p) returns the record of the    *)
(* object that create just created (same id), including for paths p        *)
(* written with trailing or repeated separators.                           *)
C27_CreatedIsWhatStatFinds ==
    (last.op = "create" /\ last.ok) =>
        /\ StatNow(last.path).ok
        /\ StatNow(last.path).rec.id = last.rec.id

----------------------------------------------------------------------------
(* The parent graph *)

(* C28: every parent reference written by a core operation points to a     *)
(* folder: the parent given to an object by create, by ensureFolder's      *)
(* folder creation, by move and by copy is always an object of folder      *)
(* type, so no sequence of operations makes an object the child of a       *)
(* non-folder.                                                             *)
C28_EveryParentIsAFolder ==
    \A k \in 1..Len(store) :
        \A parent_id \in SetOf(store[k].parents) :
            \/ parent_id = RootId
            \/ \E j \in 1..Len(store) :
                  store[j].id = parent_id /\ store[j].mime = FOLDER_MIME_TYPE

\* the ids reached from the ids in ids by following parent references, in
\* up to n steps
RECURSIVE AncestorsWithin(_, _, _)
AncestorsWithin(files, ids, n) ==
    IF n = 0 THEN ids
    ELSE AncestorsWithin(files,
                         ids \cup UNION {SetOf(files[k].parents) :
                                             k \in {j \in 1..Len(files) : files[j].id \in ids}},
                         n - 1)

\* no object is among the ancestors of its own parents
Acyclic(files) ==
    \A k \in 1..Len(files) :
        files[k].id \notin AncestorsWithin(files, SetOf(files[k].parents), Len(files))

(* C29: starting from a store whose parent graph is acyclic, no sequence   *)
(* of move operations makes the graph cyclic: move(p, d) never makes a     *)
(* folder its own parent or a child of one of its own descendants.         *)
C29_MoveKeepsTheGraphAcyclic ==
    (last.op = "move" /\ Acyclic(pre.files)) => Acyclic(store)

====
